---- MODULE Spec2Model ----
(***************************************************************************)
(* A model of optimize-images.py: the WordPress uploads image optimizer.   *)
(* The program walks year folders below an uploads directory, downsizes    *)
(* oversized images and writes them back through a temp file that is       *)
(* renamed over the original.                                              *)
(*                                                                         *)
(* Four specifications share the variables:                                *)
(*   SpecSize     compute_new_size applied to bounded inputs               *)
(*   SpecResolve  resolve_uploads_base applied to bounded directory trees  *)
(*   SpecSave     one call of atomic_save_preserve_metadata, step by step  *)
(*   Spec         whole invocations of main(), one after another           *)
(***************************************************************************)
EXTENDS Integers, Sequences, FiniteSets, TLC

\* ------------------------------------------------------------------ bounds
\* Largest image width/height and largest --max-width/--max-height of SpecSize.
MaxDim == 5
MaxBound == 5
\* Number of invocations of main() in one behaviour of Spec.
MaxRuns == 2
\* Temp files that cleanup may fail to remove in one behaviour.
MaxStrays == 1

Min(a, b) == IF a <= b THEN a ELSE b
Max(a, b) == IF a >= b THEN a ELSE b

RECURSIVE GCD(_, _)
GCD(a, b) == IF b = 0 THEN a ELSE GCD(b, a % b)

RECURSIVE IsPow2(_)
IsPow2(n) == IF n = 1 THEN TRUE ELSE IF n % 2 = 1 THEN FALSE ELSE IsPow2(n \div 2)

\* ------------------------------------------------------- compute_new_size
\* scale = min(max_w / w, max_h / h) as an exact fraction <<num, den>>.
Scale(w, h, max_w, max_h) ==
    IF max_w * h <= max_h * w THEN <<max_w, w>> ELSE <<max_h, h>>

\* int(round(x * scale)) for scale = sn/sd.  Python's round() is round half
\* to even, applied to the float product.  The float product equals the real
\* product whenever sn/sd is a binary fraction; away from a tie the float
\* error cannot change the nearest integer.  On a tie with an inexact
\* scale the float product may fall on either side of k + 1/2.
RoundScaled(x, sn, sd) ==
    LET num == x * sn
        q   == num \div sd
        r   == num % sd
    IN  IF 2 * r < sd THEN {q}
        ELSE IF 2 * r > sd THEN {q + 1}
        ELSE IF IsPow2(sd \div GCD(sn, sd))
             THEN {IF q % 2 = 0 THEN q ELSE q + 1}
             ELSE {q, q + 1}

\* ComputeNoClamp: the resize decision without the max(1, ...) clamp.
ComputeNoClamp(w, h, max_w, max_h) ==
    IF w <= max_w /\ h <= max_h
    THEN {<<w, h>>}
    ELSE LET s == Scale(w, h, max_w, max_h)
         IN  {<<nw, nh>> : nw \in RoundScaled(w, s[1], s[2]),
                           nh \in RoundScaled(h, s[1], s[2])}

\* The set of pairs compute_new_size(w, h, max_w, max_h) can return.
compute_new_size(w, h, max_w, max_h) ==
    IF w <= max_w /\ h <= max_h
    THEN {<<w, h>>}
    ELSE LET s == Scale(w, h, max_w, max_h)
         IN  {<<Max(1, nw), Max(1, nh)>> :
                  nw \in RoundScaled(w, s[1], s[2]),
                  nh \in RoundScaled(h, s[1], s[2])}

\* ---------------------------------------------------- resolve_uploads_base
\* Paths are sequences of components; Path.name is the last component.
Name(path) == path[Len(path)]

Kinds == {"none", "file", "dir"}

\* The directory names a user may point --all-uploads at.
PNames == {"uploads", "wp-content", "site", "Uploads"}

cand1(p) == p
cand2(p) == Append(p, "uploads")
cand3(p) == p \o <<"wp-content", "uploads">>

\* A directory tree around p: the kind of p, p/uploads, p/wp-content and
\* p/wp-content/uploads.
Tree(kp, k2, kw, k3) == [p |-> kp, c2 |-> k2, wpc |-> kw, c3 |-> k3]

Trees ==
    {Tree(kp, k2, kw, k3) : kp \in Kinds, k2 \in Kinds, kw \in Kinds, k3 \in Kinds}

\* Children exist only below directories.
WellFormed(t) ==
    /\ (t.p # "dir") => (t.c2 = "none" /\ t.wpc = "none")
    /\ (t.wpc # "dir") => (t.c3 = "none")

KindOf(t, p, path) ==
    IF path = cand1(p) THEN t.p
    ELSE IF path = cand2(p) THEN t.c2
    ELSE IF path = cand3(p) THEN t.c3
    ELSE "none"

IsDir(t, p, path) == KindOf(t, p, path) = "dir"

Found(path, via) == [ok |-> TRUE, path |-> path, via |-> via]
NotFound(p) == [ok |-> FALSE, tried |-> <<cand1(p), cand2(p), cand3(p)>>]

\* StrictAccepts: the test of the first loop.
StrictAccepts(t, p, cand) == IsDir(t, p, cand) /\ Name(cand) = "uploads"

\* ResolveNoNameCheck: the first loop without the name test.
ResolveNoNameCheck(t, p) ==
    IF IsDir(t, p, cand1(p)) THEN Found(cand1(p), "strict")
    ELSE IF IsDir(t, p, cand2(p)) THEN Found(cand2(p), "strict")
    ELSE IF IsDir(t, p, cand3(p)) THEN Found(cand3(p), "strict")
    ELSE NotFound(p)

resolve_uploads_base(t, p) ==
    IF StrictAccepts(t, p, cand1(p)) THEN Found(cand1(p), "strict")
    ELSE IF StrictAccepts(t, p, cand2(p)) THEN Found(cand2(p), "strict")
    ELSE IF StrictAccepts(t, p, cand3(p)) THEN Found(cand3(p), "strict")
    ELSE IF IsDir(t, p, cand2(p)) THEN Found(cand2(p), "lenient")
    ELSE IF IsDir(t, p, cand3(p)) THEN Found(cand3(p), "lenient")
    ELSE NotFound(p)

\* ------------------------------------------------------------ iter_year_dirs
\* Directory names are sequences of code points.
N2023 == <<50, 48, 50, 51>>
N2024 == <<50, 48, 50, 52>>
N2025 == <<50, 48, 50, 53>>
N202 == <<50, 48, 50>>
N20245 == <<50, 48, 50, 52, 53>>
N9999abc == <<57, 57, 57, 57, 97, 98, 99>>
\* U+0662 U+0660 U+0662 U+0664: "2024" written in Arabic-Indic digits.
NArabic2024 == <<1634, 1632, 1634, 1636>>

Entry(name, kind) == [name |-> name, kind |-> kind]

\* Entries that are never year folders by the documented rule.
JunkEntries ==
    {Entry(N9999abc, "dir"), Entry(N202, "dir"), Entry(N20245, "dir"),
     Entry(N2023, "file")}

Listings ==
    {y \cup j \cup u :
        y \in SUBSET {Entry(N2024, "dir"), Entry(N2025, "dir")},
        j \in {{}, JunkEntries},
        u \in SUBSET {Entry(NArabic2024, "dir")}}

\* str.isdigit() of one character: true of every Unicode digit, among them
\* the ASCII digits, the Arabic-Indic digits and the superscript digits.
IsDigitChar(c) == c \in (48..57) \cup (1632..1641) \cup {178, 179, 185}

IsAsciiDigitChar(c) == c \in 48..57

\* str.isdigit(): non-empty and every character a digit.
isdigit(name) == Len(name) > 0 /\ \A i \in 1..Len(name) : IsDigitChar(name[i])

\* The filter of iter_year_dirs.
IsYearDir(e) == e.kind = "dir" /\ isdigit(e.name) /\ Len(e.name) = 4

\* Python's str ordering: lexicographic by code point.
RECURSIVE StrLess(_, _)
StrLess(s, t) ==
    IF Len(t) = 0 THEN FALSE
    ELSE IF Len(s) = 0 THEN TRUE
    ELSE IF s[1] # t[1] THEN s[1] < t[1]
    ELSE StrLess(Tail(s), Tail(t))

RECURSIVE SortedNames(_)
SortedNames(S) ==
    IF S = {} THEN <<>>
    ELSE LET m == CHOOSE x \in S : \A y \in S \ {x} : StrLess(x, y)
         IN  <<m>> \o SortedNames(S \ {m})

\* list(iter_year_dirs(uploads_base)) for a directory holding the entries ls.
iter_year_dirs(ls) == SortedNames({e.name : e \in {x \in ls : IsYearDir(x)}})

\* ------------------------------------------------------------------ state
VARIABLES
    pc,         \* where the program is
    runs_left,  \* invocations of main() still to come
    args,       \* the parsed command line of the current invocation
    pname,      \* last component of the path given as PATH / --uploads
    tree,       \* what exists at that path and at the candidates below it
    udir,       \* the directory that holds the listing (<<>>: none)
    listing,    \* the entries of that directory
    cred,       \* effective uid and gid of the process
    files,      \* image files: id -> file
    baks,       \* <image>.bak files: id -> file
    tmp,        \* the .imgopt_* temp file of the save in progress
    strays,     \* .imgopt_* temp files left behind by earlier saves
    year_dirs,  \* main: year folders still to process
    tree_dir,   \* process_tree: name of the folder being walked
    queue,      \* process_tree: entries of os.walk not yet visited
    cur,        \* process_tree: the file handed to process_image
    loc,        \* locals of process_image and atomic_save_preserve_metadata
    cnt,        \* process_tree: total, changed, skipped, errors
    grand,      \* main: grand totals
    exit_code,  \* exit status of the process, -1 while it runs
    hist,       \* observations of the current invocation
    size_in,    \* SpecSize: the arguments of compute_new_size
    size_out,   \* SpecSize: what it returned
    res_out     \* SpecResolve: what resolve_uploads_base returned

fsVars == <<files, baks, tmp, strays>>
envVars == <<pname, tree, udir, listing, cred>>
mainVars == <<runs_left, args, year_dirs, grand, exit_code>>
treeVars == <<tree_dir, queue, cur, cnt>>
pureVars == <<size_in, size_out, res_out>>
vars == <<pc, fsVars, envVars, mainVars, treeVars, loc, hist, pureVars>>

\* ------------------------------------------------------------------ files
NoFile == [exists |-> FALSE]

File(content, mode, uid, gid, atime, mtime) ==
    [exists |-> TRUE, content |-> content, mode |-> mode, uid |-> uid,
     gid |-> gid, atime |-> atime, mtime |-> mtime]

\* A decodable image: stored width and height, and whether its EXIF
\* orientation turns it by a quarter.
Img(w, h, rot) == [kind |-> "image", w |-> w, h |-> h, rot |-> rot]
Corrupt == [kind |-> "corrupt"]
Partial == [kind |-> "partial"]
Empty == [kind |-> "empty"]

\* im.size after ImageOps.exif_transpose.
TransposedSize(c) == IF c.rot THEN <<c.h, c.w>> ELSE <<c.w, c.h>>

FileIds == {"a", "b", "c"}

\* The year folder each image lies in.
DirOf(f) == IF f = "c" THEN N2025 ELSE N2024

\* Path.suffix of each entry; "n" is a text file next to the images.
SuffixOf(f) ==
    CASE f = "a" -> ".jpg"
      [] f = "b" -> ".PNG"
      [] f = "c" -> ".jpeg"
      [] OTHER -> ".txt"

\* str.lower() on the suffixes that occur.
Lower(sfx) ==
    CASE sfx = ".PNG" -> ".png"
      [] sfx = ".JPG" -> ".jpg"
      [] OTHER -> sfx

SUPPORTED_EXTS == {".jpg", ".jpeg", ".png"}

is_supported_image(f) ==
    /\ f \in FileIds
    /\ files[f].exists
    /\ Lower(SuffixOf(f)) \in SUPPORTED_EXTS

\* The files os.walk reports below a year folder.
WalkEntries(d) ==
    {f \in FileIds : files[f].exists /\ DirOf(f) = d}
        \cup (IF d = N2024 THEN {"n"} ELSE {})

\* st_atime / st_mtime are floats: a nanosecond timestamp is rounded to the
\* nearest double, and doubles of this magnitude are 2^-22 s (238 ns) apart.
\* os.utime(times=...) turns the double back into whole nanoseconds.
FloatOf(ns) ==
    LET g == 238
        k == ns \div g
        r == ns % g
    IN  IF 2 * r < g THEN k * g
        ELSE IF 2 * r > g THEN (k + 1) * g
        ELSE IF k % 2 = 0 THEN k * g ELSE (k + 1) * g

HasBit(m, b) == (m \div b) % 2 = 1

\* chown(2) on a regular file clears S_ISUID (0o4000), and clears S_ISGID
\* (0o2000) when the group-execute bit (0o010) is set.
ClearSetId(m) ==
    LET m1 == IF HasBit(m, 2048) THEN m - 2048 ELSE m
    IN  IF HasBit(m1, 1024) /\ HasBit(m1, 8) THEN m1 - 1024 ELSE m1

\* os.stat(dest_path), lines 93-98.
StatOf(f) ==
    [mode |-> f.mode % 4096, uid |-> f.uid, gid |-> f.gid,
     atime |-> FloatOf(f.atime), mtime |-> FloatOf(f.mtime)]

\* chown is permitted to root, and to anyone who changes nothing.
ChownPermitted(c, uid, gid) == c.uid = 0 \/ (uid = c.uid /\ gid = c.gid)

NoLoc == [st |-> <<>>, new |-> <<>>, old |-> <<>>, exc |-> "none", ret |-> "none"]
ZeroCnt == [total |-> 0, changed |-> 0, skipped |-> 0, errors |-> 0]
NoArgs == [all |-> FALSE, year |-> <<>>, max_w |-> 0, max_h |-> 0,
           dry_run |-> FALSE, backup |-> FALSE]

\* -------------------------------------------- atomic_save_preserve_metadata
\* A step that raises inside the try block goes to the finally clause; one
\* that raises before the try block leaves the function at once.
Raise(step, to) ==
    /\ loc' = [loc EXCEPT !.exc = step,
                          !.ret = IF to = "save_exit" THEN "raised" ELSE @]
    /\ hist' = [hist EXCEPT !.failed = step]
    /\ pc' = to

\* Lines 93-98: st = os.stat(dest_path).
SaveStat ==
    /\ pc = "save_stat"
    /\ \/ /\ loc' = [loc EXCEPT !.st = StatOf(files[cur])]
          /\ pc' = "mkstemp"
          /\ hist' = hist
       \/ Raise("stat", "save_exit")
    /\ UNCHANGED <<fsVars, envVars, mainVars, treeVars, pureVars>>

\* Lines 100-103: tempfile.mkstemp in the directory of dest_path.  The new
\* file is empty, has mode 0o600 and belongs to the process.
MkTemp ==
    /\ pc = "mkstemp"
    /\ \/ /\ tmp' = File(Empty, 384, cred.uid, cred.gid, 5000, 5000)
          /\ pc' = "encode"
          /\ UNCHANGED <<loc, hist>>
       \/ /\ Raise("mkstemp", "save_exit")
          /\ tmp' = tmp
    /\ UNCHANGED <<files, baks, strays, envVars, mainVars, treeVars, pureVars>>

\* Line 106: img.save(tmp_path, ...).  A failing encoder leaves what it had
\* written so far.
Encode ==
    /\ pc = "encode"
    /\ \/ /\ tmp' = [tmp EXCEPT !.content = Img(loc.new[1], loc.new[2], FALSE)]
          /\ pc' = "chmod"
          /\ UNCHANGED <<loc, hist>>
       \/ /\ tmp' = [tmp EXCEPT !.content = Partial]
          /\ Raise("encode", "cleanup")
    /\ UNCHANGED <<files, baks, strays, envVars, mainVars, treeVars, pureVars>>

\* Line 109: os.chmod(tmp_path, mode).
Chmod ==
    /\ pc = "chmod"
    /\ \/ /\ tmp' = [tmp EXCEPT !.mode = loc.st.mode]
          /\ pc' = "chown"
          /\ UNCHANGED <<loc, hist>>
       \/ /\ Raise("chmod", "cleanup")
          /\ tmp' = tmp
    /\ UNCHANGED <<files, baks, strays, envVars, mainVars, treeVars, pureVars>>

\* Lines 112-115: os.chown(tmp_path, uid, gid); PermissionError is passed
\* over, any other error propagates.  A successful chown clears the set-id
\* bits; for root POSIX leaves that to the implementation.
Chown ==
    /\ pc = "chown"
    /\ \/ /\ ChownPermitted(cred, loc.st.uid, loc.st.gid)
          /\ \E m \in {ClearSetId(tmp.mode)} \cup
                      (IF cred.uid = 0 THEN {tmp.mode} ELSE {}) :
                 tmp' = [tmp EXCEPT !.uid = loc.st.uid, !.gid = loc.st.gid,
                                    !.mode = m]
          /\ pc' = "utime"
          /\ UNCHANGED <<loc, hist>>
       \/ /\ ~ChownPermitted(cred, loc.st.uid, loc.st.gid)
          /\ pc' = "utime"
          /\ UNCHANGED <<tmp, loc, hist>>
       \/ /\ Raise("chown", "cleanup")
          /\ tmp' = tmp
    /\ UNCHANGED <<files, baks, strays, envVars, mainVars, treeVars, pureVars>>

\* Line 118: os.utime(tmp_path, (atime, mtime)).
Utime ==
    /\ pc = "utime"
    /\ \/ /\ tmp' = [tmp EXCEPT !.atime = loc.st.atime, !.mtime = loc.st.mtime]
          /\ pc' = "replace"
          /\ UNCHANGED <<loc, hist>>
       \/ /\ Raise("utime", "cleanup")
          /\ tmp' = tmp
    /\ UNCHANGED <<files, baks, strays, envVars, mainVars, treeVars, pureVars>>

\* ReplaceByCopy: the target is truncated and rewritten instead of renamed
\* over; a failure leaves it partly written.
ReplaceByCopy ==
    /\ pc = "replace"
    /\ \/ /\ files' = [files EXCEPT ![cur] = tmp]
          /\ tmp' = NoFile
          /\ pc' = "cleanup"
          /\ UNCHANGED <<loc, hist>>
       \/ /\ files' = [files EXCEPT ![cur].content = Partial]
          /\ Raise("replace", "cleanup")
          /\ tmp' = tmp
    /\ UNCHANGED <<baks, strays, envVars, mainVars, treeVars, pureVars>>

\* Line 121: os.replace(tmp_path, dest_path): the temp file becomes the
\* target, or nothing happens.
Replace ==
    /\ pc = "replace"
    /\ \/ /\ files' = [files EXCEPT ![cur] = tmp]
          /\ tmp' = NoFile
          /\ pc' = "cleanup"
          /\ UNCHANGED <<loc, hist>>
       \/ /\ Raise("replace", "cleanup")
          /\ UNCHANGED <<files, tmp>>
    /\ UNCHANGED <<baks, strays, envVars, mainVars, treeVars, pureVars>>

\* CleanupKeepsTemp: a finally clause that never unlinks.
CleanupKeepsTemp ==
    /\ pc = "cleanup"
    /\ tmp' = NoFile
    /\ strays' = IF tmp.exists THEN strays + 1 ELSE strays
    /\ loc' = [loc EXCEPT !.ret = IF loc.exc = "none" THEN "ok" ELSE "raised"]
    /\ pc' = "save_exit"
    /\ UNCHANGED <<files, baks, envVars, mainVars, treeVars, hist, pureVars>>

\* Lines 123-128: the finally clause.  If the temp file still exists it is
\* unlinked; an unlink that fails is swallowed and the file stays behind.
\* Then the function returns, or the exception in flight propagates.
Cleanup ==
    /\ pc = "cleanup"
    /\ \/ /\ strays' = strays
          /\ hist' = hist
       \/ /\ tmp.exists
          /\ strays < MaxStrays
          /\ strays' = strays + 1
          /\ hist' = [hist EXCEPT !.unlinkFailed = TRUE]
    /\ tmp' = NoFile
    /\ loc' = [loc EXCEPT !.ret = IF loc.exc = "none" THEN "ok" ELSE "raised"]
    /\ pc' = "save_exit"
    /\ UNCHANGED <<files, baks, envVars, mainVars, treeVars, pureVars>>

SaveSteps ==
    \/ SaveStat
    \/ MkTemp
    \/ Encode
    \/ Chmod
    \/ Chown
    \/ Utime
    \/ Replace
    \/ Cleanup

\* ------------------------------------------------------------ process_image
Bump(c, field) == [c EXCEPT ![field] = @ + 1]

\* Line 195-202: process_tree takes the result or the exception of
\* process_image for the current file.
Account(result) ==
    /\ cnt' = (IF result \in {"ok", "dry"} THEN Bump(cnt, "changed")
               ELSE IF result = "skip" THEN Bump(cnt, "skipped")
               ELSE Bump(cnt, "errors"))
    /\ hist' = [hist EXCEPT !.results[cur] = result]
    /\ pc' = "walk"

\* OpenImageIgnoresDry: process_image without the dry-run return.
OpenImageIgnoresDry ==
    /\ pc = "open"
    /\ LET c == files[cur].content
       IN  IF c.kind # "image"
           THEN /\ Account("err")
                /\ loc' = loc
           ELSE \E new \in compute_new_size(TransposedSize(c)[1], TransposedSize(c)[2],
                                            args.max_w, args.max_h) :
                    IF new = TransposedSize(c)
                    THEN Account("skip") /\ loc' = loc
                    ELSE /\ loc' = [NoLoc EXCEPT !.new = new, !.old = TransposedSize(c)]
                         /\ pc' = "backup"
                         /\ UNCHANGED <<cnt, hist>>
    /\ UNCHANGED <<fsVars, envVars, mainVars, tree_dir, queue, cur, pureVars>>

\* Lines 132-143: open, transpose, decide; "skip" and "dry" return here.
OpenImage ==
    /\ pc = "open"
    /\ LET c == files[cur].content
       IN  IF c.kind # "image"
           THEN /\ Account("err")
                /\ loc' = loc
           ELSE \E new \in compute_new_size(TransposedSize(c)[1], TransposedSize(c)[2],
                                            args.max_w, args.max_h) :
                    IF new = TransposedSize(c)
                    THEN Account("skip") /\ loc' = loc
                    ELSE IF args.dry_run
                    THEN Account("dry") /\ loc' = loc
                    ELSE /\ loc' = [NoLoc EXCEPT !.new = new, !.old = TransposedSize(c)]
                         /\ pc' = "backup"
                         /\ UNCHANGED <<cnt, hist>>
    /\ UNCHANGED <<fsVars, envVars, mainVars, tree_dir, queue, cur, pureVars>>

\* shutil.copy2: the copy has the content, mode and times of the source and
\* belongs to the process.
CopyOf(f) == File(f.content, f.mode, cred.uid, cred.gid, f.atime, f.mtime)

EnterSave ==
    /\ pc' = "save_stat"
    /\ hist' = [hist EXCEPT !.pre = [file |-> files[cur], strays |-> strays],
                            !.failed = "none", !.unlinkFailed = FALSE]
    /\ cnt' = cnt

\* Lines 145-148: the backup.  shutil.copy2 may fail before it creates the
\* copy, or part-way, leaving a truncated copy; either way it raises.
Backup ==
    /\ pc = "backup"
    /\ IF args.backup /\ ~baks[cur].exists
       THEN \/ /\ baks' = [baks EXCEPT ![cur] = CopyOf(files[cur])]
               /\ EnterSave
            \/ /\ baks' = [baks EXCEPT ![cur] =
                               File(Partial, 420, cred.uid, cred.gid, 5000, 5000)]
               /\ Account("err")
            \/ /\ baks' = baks
               /\ Account("err")
       ELSE baks' = baks /\ EnterSave
    /\ UNCHANGED <<files, tmp, strays, envVars, mainVars, tree_dir, queue, cur, loc,
                   pureVars>>

\* Lines 166-168 and 196-202: the save returned ("ok") or raised.
ProcessReturn ==
    /\ pc = "save_exit"
    /\ Account(IF loc.ret = "ok" THEN "ok" ELSE "err")
    /\ UNCHANGED <<fsVars, envVars, mainVars, tree_dir, queue, cur, loc, pureVars>>

\* ------------------------------------------------------------- process_tree
AddCnt(x, y) ==
    [total |-> x.total + y.total, changed |-> x.changed + y.changed,
     skipped |-> x.skipped + y.skipped, errors |-> x.errors + y.errors]

\* Lines 187-193: the next entry of the walk; an entry that is no supported
\* image is passed over.
WalkNext ==
    /\ pc = "walk"
    /\ \E f \in queue :
          /\ queue' = queue \ {f}
          /\ IF is_supported_image(f)
             THEN /\ cnt' = Bump(cnt, "total")
                  /\ cur' = f
                  /\ hist' = [hist EXCEPT !.calls[f] = @ + 1]
                  /\ pc' = "open"
             ELSE UNCHANGED <<cnt, cur, hist, pc>>
    /\ UNCHANGED <<fsVars, envVars, mainVars, tree_dir, loc, pureVars>>

\* TreeDoneDropsErrors: the fold into the grand totals forgets the errors.
TreeDoneDropsErrors ==
    /\ pc = "walk"
    /\ queue = {}
    /\ grand' = AddCnt(grand, [cnt EXCEPT !.errors = 0])
    /\ hist' = [hist EXCEPT !.perYear = Append(@, cnt)]
    /\ pc' = "years"
    /\ UNCHANGED <<fsVars, envVars, runs_left, args, year_dirs, exit_code, treeVars, loc,
                   pureVars>>

\* Lines 204 and 253-258 / 280-283: process_tree returns its counters and
\* main adds them to the grand totals.
TreeDone ==
    /\ pc = "walk"
    /\ queue = {}
    /\ grand' = AddCnt(grand, cnt)
    /\ hist' = [hist EXCEPT !.perYear = Append(@, cnt)]
    /\ pc' = "years"
    /\ UNCHANGED <<fsVars, envVars, runs_left, args, year_dirs, exit_code, treeVars, loc,
                   pureVars>>

\* --------------------------------------------------------------------- main
NUploads == <<117, 112, 108, 111, 97, 100, 115>>
NWpContent == <<119, 112, 45, 99, 111, 110, 116, 101, 110, 116>>

\* What a directory holds: the candidates of the tree that lie directly in
\* it and, for the directory udir, the listing.
Children(path) ==
    (IF path = <<pname>> /\ tree.c2 # "none" THEN {Entry(NUploads, tree.c2)} ELSE {})
    \cup (IF path = <<pname>> /\ tree.wpc # "none" THEN {Entry(NWpContent, tree.wpc)} ELSE {})
    \cup (IF path = udir THEN listing ELSE {})

\* The kind of path/name.
ChildKind(path, name) ==
    IF \E e \in Children(path) : e.name = name
    THEN (CHOOSE e \in Children(path) : e.name = name).kind
    ELSE "none"

Bounds == {<<2, 1>>, <<4, 4>>}

\* Command lines: --all-uploads PATH, or a year (any string) with --uploads PATH.
ArgChoices ==
    {[all |-> al, year |-> y, max_w |-> b[1], max_h |-> b[2], dry_run |-> d,
      backup |-> k] :
        al \in BOOLEAN, y \in {N2024, N2023, N20245}, b \in Bounds,
        d \in BOOLEAN, k \in BOOLEAN}

FreshHist ==
    [snap |-> <<files, baks, strays>>, processed |-> <<>>, perYear |-> <<>>,
     results |-> [f \in FileIds |-> "none"], calls |-> [f \in FileIds |-> 0],
     failed |-> "none", unlinkFailed |-> FALSE,
     pre |-> [file |-> NoFile, strays |-> 0], orig |-> hist.orig,
     nobak |-> hist.nobak]

Exit(code) ==
    /\ exit_code' = code
    /\ pc' = "exited"
    /\ year_dirs' = <<>>

\* Lines 229-274: parse the arguments and resolve the paths.  A failure of the
\* resolution exits with status 2.
MainStart(a) ==
    /\ pc \in {"start", "exited"}
    /\ runs_left > 0
    /\ runs_left' = runs_left - 1
    /\ args' = a
    /\ grand' = ZeroCnt
    /\ hist' = [FreshHist EXCEPT !.nobak = @ \/ (~a.backup /\ ~a.dry_run)]
    /\ IF a.all
       THEN LET r == resolve_uploads_base(tree, <<pname>>)
            IN  IF ~r.ok THEN Exit(2)
                ELSE IF iter_year_dirs(Children(r.path)) = <<>> THEN Exit(2)
                ELSE /\ year_dirs' = iter_year_dirs(Children(r.path))
                     /\ exit_code' = -1
                     /\ pc' = "years"
       ELSE IF tree.p = "none" THEN Exit(2)
            ELSE IF ChildKind(<<pname>>, a.year) # "dir" THEN Exit(2)
            ELSE /\ year_dirs' = <<a.year>>
                 /\ exit_code' = -1
                 /\ pc' = "years"
    /\ UNCHANGED <<fsVars, envVars, treeVars, loc, pureVars>>

\* Lines 248-252 / 276: process_tree starts on the next year folder.
NextYear ==
    /\ pc = "years"
    /\ year_dirs # <<>>
    /\ tree_dir' = Head(year_dirs)
    /\ year_dirs' = Tail(year_dirs)
    /\ queue' = WalkEntries(Head(year_dirs))
    /\ cnt' = ZeroCnt
    /\ hist' = [hist EXCEPT !.processed = Append(@, Head(year_dirs))]
    /\ pc' = "walk"
    /\ UNCHANGED <<fsVars, envVars, runs_left, args, grand, exit_code, cur, loc, pureVars>>

\* FinishAlwaysZero: the exit status ignores the error count.
FinishAlwaysZero ==
    /\ pc = "years"
    /\ year_dirs = <<>>
    /\ exit_code' = 0
    /\ pc' = "exited"
    /\ UNCHANGED <<fsVars, envVars, runs_left, args, year_dirs, grand, treeVars, loc, hist,
                   pureVars>>

\* Lines 285-292: print the grand totals and exit.
Finish ==
    /\ pc = "years"
    /\ year_dirs = <<>>
    /\ exit_code' = (IF grand.errors > 0 THEN 1 ELSE 0)
    /\ pc' = "exited"
    /\ UNCHANGED <<fsVars, envVars, runs_left, args, year_dirs, grand, treeVars, loc, hist,
                   pureVars>>

\* ----------------------------------------------------------- specifications
IdlePure == size_in = <<>> /\ size_out = <<>> /\ res_out = <<>>

\* The images of Spec: "a" is 4x2, "b" cannot be decoded, "c" is stored 1x3
\* and turned to 3x1 by its orientation tag.  "c" belongs to someone else.
SpecFiles ==
    [f \in FileIds |->
        CASE f = "a" -> File(Img(4, 2, FALSE), 420, 1, 1, 0, 238)
          [] f = "b" -> File(Corrupt, 420, 1, 1, 0, 238)
          [] OTHER   -> File(Img(1, 3, TRUE), 420, 2, 2, 0, 238)]

\* The directory trees of Spec: every well-formed tree around a path that is
\* or is not named "uploads".
RunTrees == {<<n, t>> : n \in {"uploads", "site"}, t \in {x \in Trees : WellFormed(x)}}

Dirs(t, p) == {c \in {cand1(p), cand2(p), cand3(p)} : IsDir(t, p, c)}

\* Everything but the directory tree and the number of invocations.
InitRest ==
    /\ pc = "start"
    /\ args = NoArgs
    /\ cred = [uid |-> 1, gid |-> 1]
    /\ files = SpecFiles
    /\ baks = [f \in FileIds |-> NoFile]
    /\ tmp = NoFile
    /\ strays = 0
    /\ year_dirs = <<>>
    /\ tree_dir = <<>>
    /\ queue = {}
    /\ cur = "a"
    /\ loc = NoLoc
    /\ cnt = ZeroCnt
    /\ grand = ZeroCnt
    /\ exit_code = -1
    /\ hist = [snap |-> <<files, baks, strays>>, processed |-> <<>>, perYear |-> <<>>,
               results |-> [f \in FileIds |-> "none"], calls |-> [f \in FileIds |-> 0],
               failed |-> "none", unlinkFailed |-> FALSE,
               pre |-> [file |-> NoFile, strays |-> 0], orig |-> files, nobak |-> FALSE]
    /\ IdlePure

\* One invocation of main() on any of the trees and listings.
Init ==
    /\ runs_left = 1
    /\ \E pt \in RunTrees :
          /\ pname = pt[1]
          /\ tree = pt[2]
          /\ IF Dirs(pt[2], <<pt[1]>>) = {}
             THEN udir = <<>> /\ listing = {}
             ELSE udir \in Dirs(pt[2], <<pt[1]>>) /\ listing \in Listings
    /\ InitRest

\* MaxRuns invocations, one after another, on an uploads directory with the
\* year folders 2024 and 2025.
InitRerun ==
    /\ runs_left = MaxRuns
    /\ pname = "uploads"
    /\ tree = Tree("dir", "none", "none", "none")
    /\ udir = <<"uploads">>
    /\ listing \in {{Entry(N2024, "dir")}, {Entry(N2024, "dir"), Entry(N2025, "dir")}}
    /\ InitRest

Next ==
    \/ \E a \in ArgChoices : MainStart(a)
    \/ NextYear
    \/ WalkNext
    \/ OpenImage
    \/ Backup
    \/ SaveSteps
    \/ ProcessReturn
    \/ TreeDone
    \/ Finish

Spec == Init /\ [][Next]_vars

SpecRerun == InitRerun /\ [][Next]_vars

\* ------------------------------------------------- SpecSize: the resize decision
\* compute_new_size applied to the size under test.
ComputeSize ==
    /\ pc = "open"
    /\ size_out = <<>>
    /\ \E r \in compute_new_size(size_in[1], size_in[2], size_in[3], size_in[4]) :
          size_out' = r
    /\ UNCHANGED <<pc, fsVars, envVars, mainVars, treeVars, loc, hist, size_in, res_out>>

\* process_image is about to open an image of any size up to MaxDim under
\* any bounds up to MaxBound.
InitSize ==
    /\ pc = "open"
    /\ runs_left = 0
    /\ \E mw \in 1..MaxBound, mh \in 1..MaxBound, d \in BOOLEAN :
          args = [all |-> FALSE, year |-> N2024, max_w |-> mw, max_h |-> mh,
                  dry_run |-> d, backup |-> FALSE]
    /\ pname = "uploads"
    /\ tree = Tree("dir", "none", "none", "none")
    /\ udir = <<"uploads">>
    /\ listing = {Entry(N2024, "dir")}
    /\ cred = [uid |-> 1, gid |-> 1]
    /\ \E w \in 1..MaxDim, h \in 1..MaxDim, r \in BOOLEAN :
          files = [f \in FileIds |->
                      IF f = "a" THEN File(Img(w, h, r), 420, 1, 1, 0, 238) ELSE NoFile]
    /\ baks = [f \in FileIds |-> NoFile]
    /\ tmp = NoFile
    /\ strays = 0
    /\ year_dirs = <<>>
    /\ tree_dir = N2024
    /\ queue = {}
    /\ cur = "a"
    /\ loc = NoLoc
    /\ cnt = [ZeroCnt EXCEPT !.total = 1]
    /\ grand = ZeroCnt
    /\ exit_code = -1
    /\ hist = [snap |-> <<files, baks, strays>>, processed |-> <<N2024>>,
               perYear |-> <<>>,
               results |-> [f \in FileIds |-> "none"],
               calls |-> [f \in FileIds |-> IF f = "a" THEN 1 ELSE 0],
               failed |-> "none", unlinkFailed |-> FALSE,
               pre |-> [file |-> NoFile, strays |-> 0], orig |-> files, nobak |-> FALSE]
    /\ size_in = <<TransposedSize(files["a"].content)[1],
                   TransposedSize(files["a"].content)[2], args.max_w, args.max_h>>
    /\ size_out = <<>>
    /\ res_out = <<>>

NextSize ==
    \/ ComputeSize
    \/ OpenImage

SpecSize == InitSize /\ [][NextSize]_vars

\* ------------------------------------------ SpecResolve: the uploads resolver
Resolve ==
    /\ pc = "resolve"
    /\ res_out' = resolve_uploads_base(tree, <<pname>>)
    /\ pc' = "resolved"
    /\ UNCHANGED <<fsVars, envVars, mainVars, treeVars, loc, hist, size_in, size_out>>

InitResolve ==
    /\ pc = "resolve"
    /\ runs_left = 0
    /\ args = NoArgs
    /\ pname \in PNames
    /\ tree \in {t \in Trees : WellFormed(t)}
    /\ udir = <<>>
    /\ listing = {}
    /\ cred = [uid |-> 1, gid |-> 1]
    /\ files = [f \in FileIds |-> NoFile]
    /\ baks = [f \in FileIds |-> NoFile]
    /\ tmp = NoFile
    /\ strays = 0
    /\ year_dirs = <<>>
    /\ tree_dir = <<>>
    /\ queue = {}
    /\ cur = "a"
    /\ loc = NoLoc
    /\ cnt = ZeroCnt
    /\ grand = ZeroCnt
    /\ exit_code = -1
    /\ hist = [snap |-> <<files, baks, strays>>, processed |-> <<>>, perYear |-> <<>>,
               results |-> [f \in FileIds |-> "none"], calls |-> [f \in FileIds |-> 0],
               failed |-> "none", unlinkFailed |-> FALSE,
               pre |-> [file |-> NoFile, strays |-> 0], orig |-> files, nobak |-> FALSE]
    /\ IdlePure

NextResolve == Resolve

SpecResolve == InitResolve /\ [][NextResolve]_vars

\* ------------------------------------------------ SpecSave: one atomic save
\* Permission bits, owners and nanosecond timestamps a target may have:
\* 0o644, 0o4755 (set-uid) and 0o2664 (set-gid without group execute).
Modes == {420, 2541, 1460}
Owners == {0, 1, 2}
Times == {0, 100, 238}

\* atomic_save_preserve_metadata is called on the 4x2 image "a" with a 2x1
\* replacement, by root or by user 1.
InitSave ==
    /\ pc = "save_stat"
    /\ runs_left = 0
    /\ args = [all |-> FALSE, year |-> N2024, max_w |-> 2, max_h |-> 1,
               dry_run |-> FALSE, backup |-> FALSE]
    /\ pname = "uploads"
    /\ tree = Tree("dir", "none", "none", "none")
    /\ udir = <<"uploads">>
    /\ listing = {Entry(N2024, "dir")}
    /\ cred \in {[uid |-> 0, gid |-> 0], [uid |-> 1, gid |-> 1]}
    /\ \E m \in Modes, u \in Owners, g \in {1, 2}, at \in Times, mt \in Times :
          files = [f \in FileIds |->
                      IF f = "a" THEN File(Img(4, 2, FALSE), m, u, g, at, mt) ELSE NoFile]
    /\ baks = [f \in FileIds |-> NoFile]
    /\ tmp = NoFile
    /\ strays = 0
    /\ year_dirs = <<>>
    /\ tree_dir = N2024
    /\ queue = {}
    /\ cur = "a"
    /\ loc = [NoLoc EXCEPT !.new = <<2, 1>>, !.old = <<4, 2>>]
    /\ cnt = [ZeroCnt EXCEPT !.total = 1]
    /\ grand = ZeroCnt
    /\ exit_code = -1
    /\ hist = [snap |-> <<files, baks, strays>>, processed |-> <<N2024>>,
               perYear |-> <<>>,
               results |-> [f \in FileIds |-> "none"],
               calls |-> [f \in FileIds |-> IF f = "a" THEN 1 ELSE 0],
               failed |-> "none", unlinkFailed |-> FALSE,
               pre |-> [file |-> files["a"], strays |-> 0], orig |-> files, nobak |-> FALSE]
    /\ IdlePure

NextSave == SaveSteps

SpecSave == InitSave /\ [][NextSave]_vars

\* ------------------------------------------------------------------ claims
InSave ==
    pc \in {"save_stat", "mkstemp", "encode", "chmod", "chown", "utime", "replace",
            "cleanup", "save_exit"}

\* The content the save is asked to write.
NewContent == Img(loc.new[1], loc.new[2], FALSE)

\* C1: at every step of atomic_save_preserve_metadata, whether or not a step
\* fails, the target exists and holds the complete original or the complete
\* new content, never a missing, truncated or partial file; and the only step
\* that changes what the target path holds is the rename of the temp file
\* onto it.
C1_TargetAlwaysWhole ==
    /\ [](InSave =>
            /\ files[cur].exists
            /\ files[cur].content \in {hist.pre.file.content, NewContent}
            /\ files[cur].content.kind = "image")
    /\ [][(InSave /\ files' # files) =>
            /\ pc = "replace"
            /\ tmp.exists
            /\ files' = [files EXCEPT ![cur] = tmp]]_vars

\* C1 witness: the rename itself failed; the fully written temp file was
\* there and the target still holds the original.
C1_Witness ==
    /\ pc = "cleanup"
    /\ hist.failed = "replace"
    /\ tmp.exists
    /\ tmp.content = NewContent
    /\ files[cur] = hist.pre.file

FailedBeforeRename ==
    /\ pc = "save_exit"
    /\ hist.failed \in {"stat", "mkstemp", "encode", "chmod", "chown", "utime", "replace"}

C3_MetadataPreserved ==
    (pc = "save_exit" /\ loc.ret = "ok") =>
        /\ files[cur].content = NewContent
        /\ files[cur].mode = hist.pre.file.mode
        /\ files[cur].atime = hist.pre.file.atime
        /\ files[cur].mtime = hist.pre.file.mtime
        /\ ChownPermitted(cred, hist.pre.file.uid, hist.pre.file.gid) =>
              /\ files[cur].uid = hist.pre.file.uid
              /\ files[cur].gid = hist.pre.file.gid
        /\ ~tmp.exists
        /\ strays = hist.pre.strays

\* An image that decodes and exceeds a bound after transposition.
Oversized(f) ==
    /\ files[f].content.kind = "image"
    /\ \/ TransposedSize(files[f].content)[1] > args.max_w
       \/ TransposedSize(files[f].content)[2] > args.max_h

Count(S) == Cardinality(S)

WithResult(R) == {f \in FileIds : hist.results[f] \in R}

\* C4: with --dry-run, whatever the image and whatever --backup says, a whole
\* run leaves the file system as it was (no image overwritten, no temp file,
\* no .bak file created); an oversized image yields "dry" and is counted as
\* resized.
C4_DryRunWritesNothing ==
    (pc # "start" /\ args.dry_run) =>
        /\ files = hist.snap[1]
        /\ baks = hist.snap[2]
        /\ strays = hist.snap[3]
        /\ ~tmp.exists
        /\ \A f \in FileIds :
              /\ hist.results[f] \in {"none", "dry", "skip", "err"}
              /\ hist.results[f] # "none" => (hist.results[f] = "dry" <=> Oversized(f))
        /\ (pc = "exited" /\ exit_code # 2) => grand.changed = Count(WithResult({"dry"}))

\* C4 witness: a finished dry run with --backup that met an oversized image
\* while a .bak of an earlier run was there.
C4_Witness ==
    /\ pc = "exited"
    /\ args.dry_run
    /\ args.backup
    /\ hist.results["a"] = "dry"
    /\ grand.changed >= 1
    /\ hist.results["c"] = "dry"
    /\ baks["c"].exists
    /\ ~baks["a"].exists

\* C5: in backup mode the .bak copy is written only when none exists, so any
\* number of consecutive runs (also runs whose save fails) leaves, for an
\* image that was to be resized, exactly one .bak whose content is the
\* original as it was before the first run; no later run overwrites it.
C5_BackupIsOriginal ==
    ~hist.nobak =>
        \A f \in FileIds :
            /\ baks[f].exists => baks[f].content = hist.orig[f].content
            /\ files[f].content # hist.orig[f].content => baks[f].exists

\* C6: process_tree hands every candidate to the transform exactly once, a
\* failure never keeps the later files from being processed, and on return
\* scanned = candidates, resized = ok/dry results, skipped = skip results,
\* errors = failures, scanned = resized + skipped + errors; the grand totals
\* are the sums of the per-year counters.
RECURSIVE SumCnt(_)
SumCnt(sq) == IF sq = <<>> THEN ZeroCnt ELSE AddCnt(Head(sq), SumCnt(Tail(sq)))

Candidates(d) == {f \in FileIds : DirOf(f) = d /\ files[f].exists}

InTree(R) == {f \in Candidates(tree_dir) : hist.results[f] \in R}

SeqRange(sq) == {sq[i] : i \in 1..Len(sq)}

C6_CountersMatchOutcomes ==
    /\ \A f \in FileIds : hist.calls[f] <= 1
    /\ (pc = "walk" /\ queue = {}) =>
          /\ \A f \in Candidates(tree_dir) :
                hist.calls[f] = 1 /\ hist.results[f] # "none"
          /\ cnt.total = Count(Candidates(tree_dir))
          /\ cnt.changed = Count(InTree({"ok", "dry"}))
          /\ cnt.skipped = Count(InTree({"skip"}))
          /\ cnt.errors = Count(InTree({"err"}))
          /\ cnt.total = cnt.changed + cnt.skipped + cnt.errors
    /\ (pc = "exited" /\ exit_code # 2) =>
          /\ grand = SumCnt(hist.perYear)
          /\ Len(hist.perYear) = Len(hist.processed)
          /\ grand.total = Count({f \in FileIds : DirOf(f) \in SeqRange(hist.processed)})
          /\ grand.changed = Count(WithResult({"ok", "dry"}))
          /\ grand.skipped = Count(WithResult({"skip"}))
          /\ grand.errors = Count(WithResult({"err"}))

\* C6 witness: an all-years run in which "b" failed and the other images,
\* one of them in a later year folder, were resized.
C6_Witness ==
    /\ pc = "exited"
    /\ args.all
    /\ hist.results = [f \in FileIds |-> IF f = "b" THEN "err" ELSE "ok"]
    /\ grand = [total |-> 3, changed |-> 2, skipped |-> 0, errors |-> 1]

\* The path resolution of main fails: the uploads base is missing, the year
\* directory is missing or no directory, or there is no year folder.
ResolutionFails ==
    IF args.all
    THEN \/ ~resolve_uploads_base(tree, <<pname>>).ok
         \/ ~\E e \in Children(resolve_uploads_base(tree, <<pname>>).path) : IsYearDir(e)
    ELSE \/ tree.p = "none"
         \/ ~\E e \in Children(<<pname>>) : e.name = args.year /\ e.kind = "dir"

RoundHalfEven(num, den) ==
    LET q == num \div den
        r == num % den
    IN  IF 2 * r < den THEN q
        ELSE IF 2 * r > den THEN q + 1
        ELSE IF q % 2 = 0 THEN q ELSE q + 1

\* n is an integer nearest to num/den.
Nearest(n, num, den) == 2 * n * den - 2 * num <= den /\ 2 * num - 2 * n * den <= den

W == size_in[1]
H == size_in[2]
MW == size_in[3]
MH == size_in[4]

WithinBounds == W <= MW /\ H <= MH

\* min(maxW/w, maxH/h) as a fraction.
MinScale == IF MW * H <= MH * W THEN <<MW, W>> ELSE <<MH, H>>

SizeLimits ==
    /\ 1 <= size_out[1] /\ size_out[1] <= Min(W, MW)
    /\ 1 <= size_out[2] /\ size_out[2] <= Min(H, MH)
    /\ size_out[1] < W \/ size_out[2] < H

SkipIffWithin ==
    hist.results["a"] # "none" => (hist.results["a"] = "skip" <=> WithinBounds)

IsFourAsciiDigits(name) ==
    Len(name) = 4 /\ \A i \in 1..4 : IsAsciiDigitChar(name[i])

\* C9: in all-years mode the folders processed are exactly the immediate
\* subdirectories of the resolved uploads base whose name is four ASCII
\* digits, each once, in ascending order of name; with no such subdirectory
\* the run fails before any file is processed.
C9_YearFolders ==
    (pc = "exited" /\ args.all /\ resolve_uploads_base(tree, <<pname>>).ok) =>
        LET base == resolve_uploads_base(tree, <<pname>>).path
            years == {e.name : e \in {x \in Children(base) :
                                         x.kind = "dir" /\ IsFourAsciiDigits(x.name)}}
        IN  /\ SeqRange(hist.processed) = years
            /\ Len(hist.processed) = Count(years)
            /\ \A i, j \in 1..Len(hist.processed) :
                  i < j => StrLess(hist.processed[i], hist.processed[j])
            /\ years = {} =>
                  /\ exit_code = 2
                  /\ \A f \in FileIds : hist.calls[f] = 0

Cands == <<cand1(<<pname>>), cand2(<<pname>>), cand3(<<pname>>)>>
CandKind == <<tree.p, tree.c2, tree.c3>>
Strict(i) == CandKind[i] = "dir" /\ Cands[i][Len(Cands[i])] = "uploads"
Lenient(i) == i \in {2, 3} /\ CandKind[i] = "dir"
First(S) == CHOOSE i \in S : \A j \in S : i <= j

\* C10: resolve_uploads_base returns the first of path, path/uploads,
\* path/wp-content/uploads that is a directory literally named "uploads";
\* only when none is does it return path/uploads, or else
\* path/wp-content/uploads, if that is a directory; when nothing is accepted
\* it raises an error that lists the three candidates and returns no path.
C10_ResolveOrder ==
    pc = "resolved" =>
        IF \E i \in 1..3 : Strict(i)
        THEN res_out.ok /\ res_out.path = Cands[First({i \in 1..3 : Strict(i)})]
        ELSE IF \E i \in 1..3 : Lenient(i)
        THEN res_out.ok /\ res_out.path = Cands[First({i \in 1..3 : Lenient(i)})]
        ELSE /\ ~res_out.ok
             /\ res_out.tried = Cands
             /\ "path" \notin DOMAIN res_out

\* C10 witness: several candidates are directories and the order of the
\* tests decides: path is named "uploads" and wins over path/uploads, which
\* the second round alone would have returned.
C10_Witness ==
    /\ pc = "resolved"
    /\ pname = "uploads"
    /\ tree.p = "dir"
    /\ tree.c2 = "dir"
    /\ tree.c3 = "dir"
    /\ res_out.ok
    /\ res_out.path = <<"uploads">>

====
